---- MODULE Spec2Model ----
(***************************************************************************)
(* Model of package ode (ode.go): the single-step methods Euler, MidPoint  *)
(* and Rk4, the quality estimator, and the steppers FixedStep and          *)
(* AdaptiveStep.                                                           *)
(*                                                                         *)
(* Num (float64 in the source) is modelled by exact rationals <<n, d>>     *)
(* with d > 0 in lowest terms: every arithmetic expression of the source   *)
(* is evaluated in the source's order, without rounding.  Slices are       *)
(* modelled by addresses into a memory of backing arrays, so that copying  *)
(* and aliasing differ.  A run-time panic (index out of range) is the      *)
(* value Panic.                                                            *)
(***************************************************************************)
EXTENDS Integers, Sequences, FiniteSets, TLC

(***************************************************************************)
(* Num: exact rational arithmetic                                          *)
(***************************************************************************)
\* Go evaluates an operand or argument once, before it is used: Only({e : v \in {x}})
\* is e with v bound to the value of x.
Only(S) == CHOOSE v \in S : TRUE

Abs(n) == IF n < 0 THEN -n ELSE n

RECURSIVE GCD(_, _)
GCD(m, n) == Only({IF b = 0 THEN a ELSE GCD(b, a % b) : a \in {m}, b \in {n}})

NormBy(n, d, g) ==
    IF d < 0 THEN <<(-n) \div g, (-d) \div g>> ELSE <<n \div g, d \div g>>

\* the rational n/d (d # 0) in lowest terms with a positive denominator
Norm(n, d) == NormBy(n, d, GCD(Abs(n), Abs(d)))

R(n) == <<n, 1>>

RNeg(x) == Only({<<-a[1], a[2]>> : a \in {x}})

RAddBy(x, y, g) ==
    Norm(x[1] * (y[2] \div g) + y[1] * (x[2] \div g), (x[2] \div g) * y[2])

RAdd(x, y) == Only({RAddBy(a, b, GCD(a[2], b[2])) : a \in {x}, b \in {y}})

RSub(x, y) == RAdd(x, RNeg(y))

RMulBy(x, y, g1, g2) ==
    <<(x[1] \div g1) * (y[1] \div g2), (x[2] \div g2) * (y[2] \div g1)>>

RMul(x, y) ==
    Only({RMulBy(a, b, GCD(Abs(a[1]), b[2]), GCD(Abs(b[1]), a[2])) : a \in {x}, b \in {y}})

\* x / y for y # 0
RDiv(x, y) == RMul(x, Only({Norm(b[2], b[1]) : b \in {y}}))

RLessBy(x, y, g) == x[1] * (y[2] \div g) < y[1] * (x[2] \div g)

RLess(x, y) == Only({RLessBy(a, b, GCD(a[2], b[2])) : a \in {x}, b \in {y}})

RLeq(x, y) == ~RLess(y, x)

RMin(x, y) == Only({IF RLess(b, a) THEN b ELSE a : a \in {x}, b \in {y}})

(***************************************************************************)
(* Slices of Num and panics                                                *)
(***************************************************************************)
\* make([]Num, n): n zeros
Make(n) == [i \in 1..n |-> R(0)]

\* the outcome of a call that ended in a run-time panic
Panic == [ok |-> FALSE, v |-> <<>>]

Ok(v) == [ok |-> TRUE, v |-> v]

(***************************************************************************)
(* Ode: the equations a caller supplies, func([]Num, Num) Num.             *)
(* Index i of the source is index i+1 here.                                *)
(*   zero    dx/dt = 0                                                     *)
(*   time    dx/dt = t                                                     *)
(*   slow    dx/dt = t/64                                                  *)
(*   dxdt    v := xx[1]; return v                (the example's dxdt)      *)
(*   dvdt    -k*x/m - b*v/m, k = m = 1, b = 0.4  (the example's dvdt)      *)
(***************************************************************************)
OdeNames == {"zero", "time", "slow", "dxdt", "dvdt"}

\* the highest index of xx the equation reads (0: none)
OdeReads(f) == IF f \in {"dxdt", "dvdt"} THEN 2 ELSE 0

\* f(xx, t) indexes past the end of xx
OdePanics(f, xx) == OdeReads(f) > Len(xx)

\* f(xx, t) otherwise
Ode(f, xx, t) ==
    CASE f = "zero" -> R(0)
      [] f = "time" -> t
      [] f = "slow" -> RDiv(t, R(64))
      [] f = "dxdt" -> xx[2]
      [] f = "dvdt" -> RSub(RDiv(RMul(R(-1), xx[1]), R(1)),
                            RDiv(RMul(Norm(2, 5), xx[2]), R(1)))

(***************************************************************************)
(* The single-step methods                                                 *)
(***************************************************************************)
\* for i, f := range dxdt { dd[i] = f(xx, t) }, from index i on
RECURSIVE DerivsFrom(_, _, _, _, _)
Derivs(i, dd, dxdt, xx, t) ==
    Only({DerivsFrom(i, d, dxdt, x, te) : d \in {dd}, x \in {xx}, te \in {t}})
DerivsFrom(i, dd, dxdt, xx, t) ==
    IF i > Len(dxdt) THEN Ok(dd)
    ELSE IF OdePanics(dxdt[i], xx) \/ i > Len(dd) THEN Panic
    ELSE Derivs(i + 1, [dd EXCEPT ![i] = Ode(dxdt[i], xx, t)], dxdt, xx, t)

\* kk = make([]Num, len(xx)); for i, d := range dd { kk[i] = h * d }
Scale(h, dd) ==
    Only({IF ~d.ok THEN Panic ELSE Ok([i \in 1..Len(d.v) |-> RMul(h, d.v[i])]) : d \in {dd}})

\* Euler integration method (deriv at start of interval)
EulerChecked(xx, t, h, dxdt) ==
    IF Len(dxdt) # Len(xx) THEN Panic
    ELSE Scale(h, Derivs(1, Make(Len(xx)), dxdt, xx, t))
Euler(xx, t, h, dxdt) == Scale(h, Derivs(1, Make(Len(xx)), dxdt, xx, t))

\* MidPoint from its x_2 on, dd being the derivatives at (x_n, t_n)
MidPointHalfWay(x_n, t_n, h, dxdt, dd) ==
    IF ~dd.ok THEN Panic
    ELSE Scale(h, Derivs(1, dd.v, dxdt,
                         [i \in 1..Len(x_n) |->
                             RAdd(x_n[i], RDiv(RMul(dd.v[i], h), R(2)))],
                         RAdd(t_n, RDiv(h, R(2)))))

\* Mid point integration method (deriv half way interval)
MidPoint(x_n, t_n, h, dxdt) ==
    Only({MidPointHalfWay(x_n, t_n, h, dxdt, dd) :
             dd \in {Derivs(1, Make(Len(x_n)), dxdt, x_n, t_n)}})

\* Rk4's locals: dd[k+1] is ddk (k = 0..3), with ok = FALSE after a panic
Rk4Locals(n) == [ok |-> TRUE, dd |-> [k \in 1..4 |-> Make(n)], xxNext |-> Make(n)]

\* the time at which loop k (1..4) evaluates the equations
Rk4Time(k, t, h) ==
    IF k = 1 THEN t ELSE IF k = 4 THEN RAdd(t, h) ELSE RAdd(t, RDiv(h, R(2)))

\* the factor with which loop k (1..3) builds xxNext
Rk4Factor(k, h) == IF k = 3 THEN h ELSE RDiv(h, R(2))

\* ddk[i] = f(xxNext, ...): the first loop reads xx0, the others xxNext
Rk4Deriv(k, i, s, xx0, f, t, h) ==
    IF OdePanics(f, xx0) \/ i > Len(xx0) THEN [s EXCEPT !.ok = FALSE]
    ELSE [s EXCEPT !.dd[k][i] = Ode(f, IF k = 1 THEN xx0 ELSE s.xxNext, Rk4Time(k, t, h))]

\* xxNext[i] = xx0[i] + factor*ddk[i]: in place, inside the loop (not in loop 4)
Rk4Trial(k, i, s, xx0, h) ==
    IF ~s.ok \/ k = 4 THEN s
    ELSE [s EXCEPT !.xxNext[i] = RAdd(xx0[i], RMul(Rk4Factor(k, h), s.dd[k][i]))]

\* one pass of the body of loop k, at index i
Rk4Body(k, i, s, xx0, f, t, h) ==
    Only({Rk4Trial(k, i, s1, xx0, h) : s1 \in {Rk4Deriv(k, i, s, xx0, f, t, h)}})

\* loop k of Rk4 (for i, f := range dxdt), from index i on
RECURSIVE Rk4Loop(_, _, _, _, _, _, _)
Rk4Loop(k, i, s, xx0, dxdt, t, h) ==
    IF ~s.ok \/ i > Len(dxdt) THEN s
    ELSE Only({Rk4Loop(k, i + 1, s1, xx0, dxdt, t, h) :
                  s1 \in {Rk4Body(k, i, s, xx0, dxdt[i], t, h)}})

\* the four loops in turn, from loop k on
RECURSIVE Rk4Loops(_, _, _, _, _, _)
Rk4Loops(k, s, xx0, dxdt, t, h) ==
    IF k > 4 THEN s
    ELSE Only({Rk4Loops(k + 1, s1, xx0, dxdt, t, h) :
                  s1 \in {Rk4Loop(k, 1, s, xx0, dxdt, t, h)}})

\* kk[i] = h / 6 * (dd0[i] + 2*dd1[i] + 2*dd2[i] + dd3[i])
Rk4Sum(h, s) ==
    IF ~s.ok THEN Panic
    ELSE Ok([i \in 1..Len(s.xxNext) |->
               RMul(RDiv(h, R(6)),
                    RAdd(RAdd(RAdd(s.dd[1][i], RMul(R(2), s.dd[2][i])),
                              RMul(R(2), s.dd[3][i])),
                         s.dd[4][i]))])

\* Rk4 Runge Kutta integration method (weighted average deriv)
Rk4(xx0, t, h, dxdt) ==
    Only({Rk4Sum(h, s) : s \in {Rk4Loops(1, Rk4Locals(Len(xx0)), xx0, dxdt, t, h)}})

\* Integrator: the method a stepper is given
MethodNames == {"Euler", "MidPoint", "Rk4"}

IntegratorOf(method, xx, t, h, dxdt) ==
    CASE method = "Euler"    -> Euler(xx, t, h, dxdt)
      [] method = "MidPoint" -> MidPoint(xx, t, h, dxdt)
      [] method = "Rk4"      -> Rk4(xx, t, h, dxdt)

Integrator(method, xx, t, h, dxdt) ==
    Only({IntegratorOf(method, x, te, step, dxdt) : x \in {xx}, te \in {t}, step \in {h}})

(***************************************************************************)
(* quality compares results with h and h/2                                 *)
(***************************************************************************)
\* if diff >= 0 { c = diff / h } else { c = -diff / h }
qualityC(full, half, h) ==
    Only({IF RLeq(R(0), diff) THEN RDiv(diff, h) ELSE RDiv(RNeg(diff), h) :
             diff \in {RSub(full, half)}})

\* if c > q { q = c }
qualityMax(q, c) == Only({IF RLess(q, c1) THEN c1 ELSE q : c1 \in {c}})

RECURSIVE qualityLoop(_, _, _, _, _)
qualityLoop(i, q, xFull, xHalf, h) ==
    IF i > Len(xFull) THEN q
    ELSE Only({qualityLoop(i + 1, q1, xFull, xHalf, h) :
                  q1 \in {qualityMax(q, qualityC(xFull[i], xHalf[i], h))}})

quality(xFull, xHalf, h) == qualityLoop(1, R(0), xFull, xHalf, h)

(***************************************************************************)
(* Inputs                                                                  *)
(***************************************************************************)
MaxTmax == 2
MaxHExp == 3

RECURSIVE Pow2(_)
Pow2(k) == IF k = 0 THEN 1 ELSE 2 * Pow2(k - 1)

\* The systems a method is called on: the equations and the caller's state.
\* The last three have a state vector and an equation set of different lengths.
Systems ==
    { [dxdt |-> <<"zero">>,         xx |-> <<R(1)>>],
      [dxdt |-> <<"time">>,         xx |-> <<R(0)>>],
      [dxdt |-> <<"slow">>,         xx |-> <<R(0)>>],
      [dxdt |-> <<"dxdt", "time">>, xx |-> <<R(0), R(0)>>],
      [dxdt |-> <<"dxdt", "dvdt">>, xx |-> <<Norm(-1, 2), R(0)>>],
      [dxdt |-> <<"time">>,         xx |-> <<R(0), R(1)>>],
      [dxdt |-> <<"time", "zero">>, xx |-> <<R(0)>>],
      [dxdt |-> <<"dxdt", "dvdt">>, xx |-> <<R(1)>>] }

\* The systems the steppers integrate: those of Systems whose state stays
\* within TLC's integers over a whole trajectory (no equation feeds back into
\* the component it reads).
StepSystems == {sys \in Systems : \A i \in 1..Len(sys.dxdt) : sys.dxdt[i] # "dvdt"}

T0Set   == {R(0), Norm(1, 8)}
TmaxSet == {Norm(k, 8) : k \in 0..MaxTmax}
HSet    == {Norm(1, Pow2(k)) : k \in 0..MaxHExp}
HminSet == {Norm(1, 4), Norm(1, 64)}

\* the steps of the direct method calls
MethodHSet == {R(1), Norm(1, 2), Norm(1, 4)}

Entries == {"Method", "FixedStep", "AdaptiveStep"}

(***************************************************************************)
(* State                                                                   *)
(***************************************************************************)
VARIABLES
    entry,    \* the function the caller calls
    method,   \* parameter method (for entry Method: the method called)
    dxdt,     \* parameter dxdt
    t0, tmax, hmin, h0,   \* parameters t0, tmax, hmin and the h passed in
    mem,      \* the backing arrays; mem[1] is the caller's state vector
    xx,       \* parameter xx: the address of the live state vector
    T, h, H,  \* locals T, h (AdaptiveStep changes its parameter h), H
    a,        \* AdaptiveStep's retry counter a
    q,        \* the q of the last attempt
    kk_full,  \* the increment of the last full step
    r,        \* the trajectory: Results [t, xx], xx an address
    ret,      \* entry Method: what the call returned
    calls,    \* the arguments of the method calls of the last attempt
    tries,    \* full-step attempts made in the current outer iteration
    halvings, \* halvings of h made in the current outer iteration
    pc

vars == <<entry, method, dxdt, t0, tmax, hmin, h0, mem, xx, T, h, H, a, q,
          kk_full, r, ret, calls, tries, halvings, pc>>

params == <<entry, method, dxdt, t0, tmax, hmin, h0, xx>>

Init ==
    /\ entry \in Entries
    /\ method \in MethodNames
    /\ \E sys \in (IF entry = "Method" THEN Systems ELSE StepSystems) :
          dxdt = sys.dxdt /\ mem = <<sys.xx>>
    /\ xx = 1
    /\ t0 \in T0Set
    /\ h0 \in (IF entry = "Method" THEN MethodHSet ELSE HSet)
    /\ tmax \in (IF entry = "Method" THEN {t0} ELSE TmaxSet)
    /\ hmin \in (IF entry = "AdaptiveStep" THEN HminSet ELSE {h0})
    /\ T = t0
    /\ h = h0
    /\ H = R(0)
    /\ a = 0
    /\ q = R(0)
    /\ kk_full = <<>>
    /\ r = <<>>
    /\ ret = Ok(<<>>)
    /\ calls = <<>>
    /\ tries = 0
    /\ halvings = 0
    /\ pc = IF entry = "Method" THEN "call" ELSE "loop"

(***************************************************************************)
(* Pieces of the steppers                                                  *)
(***************************************************************************)
\* for i, k := range kk { x[i] += k }
AddTo(x, kk) == [i \in 1..Len(x) |-> IF i <= Len(kk) THEN RAdd(x[i], kk[i]) ELSE x[i]]

\* for T <= tmax
LoopCondStrict(t, max) == RLess(t, max)
LoopCond(t, max) == RLeq(t, max)

\* x := make([]Num, len(xx)); copy(x, xx): a new array holding xx's values
SnapshotAlias(m, x) == [mem |-> m, x |-> x]
Snapshot(m, x) == [mem |-> Append(m, m[x]), x |-> Len(m) + 1]

\* the time AdaptiveStep stores in Result{T, x}, appended before T += H
ResultTimeLate(t, step) == RAdd(t, step)
ResultTime(t, step) == t

\* T += H
AdvanceByNext(t, used, next) == RAdd(t, next)
Advance(t, used, next) == RAdd(t, used)

\* max 5 decrements: for a := 0; a < 5; a++
MaxAttemptsSix == 5 + 1
MaxAttempts == 5

QHigh == Norm(5, 1000)
QLow  == Norm(5, 10000)

\* the decision that ends an attempt: the next h, and whether the loop breaks
DecideDoubleFirst(step, min, qual) ==
    IF RLess(qual, QLow) THEN [h |-> RMul(step, R(2)), brk |-> TRUE]
    ELSE IF RLess(step, min) THEN [h |-> step, brk |-> TRUE]
    ELSE IF RLess(QHigh, qual) THEN [h |-> RDiv(step, R(2)), brk |-> FALSE]
    ELSE [h |-> step, brk |-> TRUE]
DecideHalveFirst(step, min, qual) ==
    IF RLess(QHigh, qual) THEN [h |-> RDiv(step, R(2)), brk |-> FALSE]
    ELSE IF RLess(step, min) THEN [h |-> step, brk |-> TRUE]
    ELSE IF RLess(qual, QLow) THEN [h |-> RMul(step, R(2)), brk |-> TRUE]
    ELSE [h |-> step, brk |-> TRUE]
Decide(step, min, qual) ==
    IF RLess(step, min) THEN [h |-> step, brk |-> TRUE]
    ELSE IF RLess(QHigh, qual) THEN [h |-> RDiv(step, R(2)), brk |-> FALSE]
    ELSE IF RLess(qual, QLow) THEN [h |-> RMul(step, R(2)), brk |-> TRUE]
    ELSE [h |-> step, brk |-> TRUE]

\* The retry loop's body up to q.  An attempt's locals: kk_full, x_full_tmp,
\* x_half_tmp and q, with ok = FALSE after a panic; calls lists the arguments
\* of the method calls made, in order.
AttemptFullSet(x, t, step, kk) ==
    [ok |-> kk.ok, kk_full |-> kk.v, q |-> R(0),
     x_full |-> IF kk.ok THEN AddTo(x, kk.v) ELSE x,
     x_half |-> x,
     calls |-> <<[x |-> x, t |-> t, h |-> step]>>]

\* kk_full = method(xx, T, h, dxdt); x_full_tmp[i] = xx[i] + k
AttemptFull(m, eqs, x, t, step) ==
    Only({AttemptFullSet(x, t, step, kk) : kk \in {Integrator(m, x, t, step, eqs)}})

\* for i, k := range kk_half { x_half_tmp[i] += k }
AttemptHalfSet(s, t, hh, kk_half) ==
    Only({IF ~kk.ok THEN [s EXCEPT !.ok = FALSE]
          ELSE [s EXCEPT !.x_half = AddTo(s.x_half, kk.v),
                         !.calls = Append(s.calls, [x |-> s.x_half, t |-> t, h |-> hh])] :
             kk \in {kk_half}})

\* for halfs := 0; halfs <= 1; halfs++ { kk_half = method(x_half_tmp, T, h/2, dxdt) ... }
RECURSIVE AttemptHalfs(_, _, _, _, _, _)
AttemptHalfs(halfs, s, m, eqs, t, step) ==
    IF ~s.ok \/ halfs > 1 THEN s
    ELSE Only({AttemptHalfs(halfs + 1, s1, m, eqs, t, step) :
                  s1 \in {AttemptHalfSet(s, t, RDiv(step, R(2)),
                                         Integrator(m, s.x_half, t, RDiv(step, R(2)), eqs))}})

\* q := quality(x_full_tmp, x_half_tmp, h)
AttemptQuality(s, step) ==
    Only({IF ~s1.ok THEN s1 ELSE [s1 EXCEPT !.q = quality(s1.x_full, s1.x_half, step)] :
             s1 \in {s}})

Attempt(m, eqs, x, t, step) ==
    Only({AttemptQuality(AttemptHalfs(0, s, m, eqs, t, step), step) :
             s \in {AttemptFull(m, eqs, x, t, step)}})

(***************************************************************************)
(* Actions                                                                 *)
(***************************************************************************)
\* a direct call of Euler, MidPoint or Rk4
MethodCall ==
    /\ pc = "call"
    /\ ret' = Integrator(method, mem[xx], t0, h0, dxdt)
    /\ pc' = IF ret'.ok THEN "done" ELSE "panic"
    /\ UNCHANGED <<params, mem, T, h, H, a, q, kk_full, r, calls, tries, halvings>>

\* FixedStep: one pass of the loop body
FixedIterate ==
    /\ pc = "loop"
    /\ entry = "FixedStep"
    /\ LoopCond(T, tmax)
    /\ \E kk \in {Integrator(method, mem[xx], T, h, dxdt)}, s \in {Snapshot(mem, xx)} :
           IF ~kk.ok
           THEN /\ pc' = "panic"
                /\ UNCHANGED <<mem, r, T>>
           ELSE /\ r' = Append(r, [t |-> T, xx |-> s.x])
                /\ mem' = [s.mem EXCEPT ![xx] = AddTo(s.mem[xx], kk.v)]
                /\ T' = RAdd(T, h)
                /\ pc' = "loop"
    /\ UNCHANGED <<params, h, H, a, q, kk_full, ret, calls, tries, halvings>>

\* AdaptiveStep: the outer loop is entered and the retry loop starts
AdaptiveEnter ==
    /\ pc = "loop"
    /\ entry = "AdaptiveStep"
    /\ LoopCond(T, tmax)
    /\ a' = 0
    /\ tries' = 0
    /\ halvings' = 0
    /\ pc' = "attempt"
    /\ UNCHANGED <<params, mem, T, h, H, q, kk_full, r, ret, calls>>

\* AdaptiveStep: one pass of the retry loop
AdaptiveAttempt ==
    /\ pc = "attempt"
    /\ \E at \in {Attempt(method, dxdt, mem[xx], T, h)} :
       \E d \in {Decide(h, hmin, at.q)} :
           IF ~at.ok
           THEN /\ pc' = "panic"
                /\ UNCHANGED <<h, H, a, q, kk_full, calls, tries, halvings>>
           ELSE /\ kk_full' = at.kk_full
                /\ calls' = at.calls
                /\ q' = at.q
                /\ H' = h
                /\ h' = d.h
                /\ tries' = tries + 1
                /\ halvings' = IF RLess(d.h, h) THEN halvings + 1 ELSE halvings
                /\ a' = IF d.brk THEN a ELSE a + 1
                /\ pc' = IF d.brk \/ a + 1 >= MaxAttempts THEN "accept" ELSE "attempt"
    /\ UNCHANGED <<params, mem, T, r, ret>>

\* AdaptiveStep: the snapshot, T += H and the increment, after the retry loop
AdaptiveAccept ==
    /\ pc = "accept"
    /\ \E s \in {Snapshot(mem, xx)} :
           /\ r' = Append(r, [t |-> ResultTime(T, H), xx |-> s.x])
           /\ mem' = [s.mem EXCEPT ![xx] = AddTo(s.mem[xx], kk_full)]
    /\ T' = Advance(T, H, h)
    /\ pc' = "loop"
    /\ UNCHANGED <<params, h, H, a, q, kk_full, ret, calls, tries, halvings>>

\* either stepper: the loop ends and r is returned
Return ==
    /\ pc = "loop"
    /\ ~LoopCond(T, tmax)
    /\ pc' = "done"
    /\ UNCHANGED <<params, mem, T, h, H, a, q, kk_full, r, ret, calls, tries, halvings>>

\* after a stepper returned, the caller overwrites its state vector in place
CallerMutate ==
    /\ pc = "done"
    /\ entry # "Method"
    /\ mem' = [mem EXCEPT ![xx] = [i \in 1..Len(mem[xx]) |-> R(7)]]
    /\ pc' = "mutated"
    /\ UNCHANGED <<params, T, h, H, a, q, kk_full, r, ret, calls, tries, halvings>>

Next ==
    \/ MethodCall
    \/ FixedIterate
    \/ AdaptiveEnter
    \/ AdaptiveAttempt
    \/ AdaptiveAccept
    \/ Return
    \/ CallerMutate

Spec == Init /\ [][Next]_vars

\* a call that has started runs on until it returns or panics
FairSpec == Spec /\ WF_vars(Next)

(***************************************************************************)
(* Properties                                                              *)
(***************************************************************************)
Adaptive == entry = "AdaptiveStep"

Fixed == entry = "FixedStep"

Returned == pc \in {"done", "mutated"}

\* the live state vector
Live == mem[xx]

\* no equation of the call indexes past the end of the state vector
OdesInRange == \A i \in 1..Len(dxdt) : ~OdePanics(dxdt[i], Live)

\* C1: every snapshot of AdaptiveStep's trajectory has a time T <= tmax, and
\* the trajectory is empty when t0 > tmax, although T and the live state are
\* advanced once more after the last snapshot.
SnapshotsWithinTmax ==
    Adaptive =>
        /\ \A i \in 1..Len(r) : RLeq(r[i].t, tmax)
        /\ RLess(tmax, t0) => r = <<>>

\* AdaptiveStep returned several snapshots, and T and the live state have
\* moved on past the last one
SnapshotsWithinTmaxWitness ==
    /\ Adaptive
    /\ pc = "done"
    /\ Len(r) >= 2
    /\ RLess(tmax, T)
    /\ Live # mem[r[Len(r)].xx]

\* C2: a snapshot holds the values the live state had when it was taken, and
\* no later step (an iteration of either stepper, the caller's write after
\* the return) changes a snapshot already in the trajectory.
SnapshotsAreCopies ==
    [][ /\ \A i \in 1..Len(r) :
              /\ i <= Len(r')
              /\ r'[i].t = r[i].t
              /\ mem'[r'[i].xx] = mem[r[i].xx]
        /\ Len(r') > Len(r) => mem'[r'[Len(r')].xx] = Live ]_vars

\* the caller has overwritten its state vector after a stepper returned
\* snapshots of a state that changed between them
SnapshotsAreCopiesWitness ==
    /\ pc = "mutated"
    /\ Len(r) >= 2
    /\ mem[r[1].xx] # mem[r[2].xx]
    /\ \A i \in 1..Len(r) : mem[r[i].xx] # Live

\* the derivatives of every component at (y, te)
AllDerivs(eqs, y, te) == [i \in 1..Len(y) |-> Ode(eqs[i], y, te)]

\* y + c*k, for all components
Trial(y, c, k) == [i \in 1..Len(y) |-> RAdd(y[i], RMul(c, k[i]))]

\* the textbook fourth-order Runge-Kutta increment: every stage's trial state
\* is built for all components from the previous stage's derivatives
Rk4Classical(x, t, step, eqs) ==
    LET hh == RDiv(step, R(2))
        k0 == AllDerivs(eqs, x, t)
        k1 == AllDerivs(eqs, Trial(x, hh, k0), RAdd(t, hh))
        k2 == AllDerivs(eqs, Trial(x, hh, k1), RAdd(t, hh))
        k3 == AllDerivs(eqs, Trial(x, step, k2), RAdd(t, step))
    IN  [i \in 1..Len(x) |->
            RMul(RDiv(step, R(6)),
                 RAdd(RAdd(RAdd(k0[i], RMul(R(2), k1[i])), RMul(R(2), k2[i])), k3[i]))]

\* C3: Rk4 returns h/6*(k0 + 2*k1 + 2*k2 + k3) with each stage's trial state
\* built for all components from the previous stage's derivatives only.
Rk4IsClassical ==
    (entry = "Method" /\ method = "Rk4" /\ pc = "done" /\ Len(dxdt) = Len(Live))
        => ret.v = Rk4Classical(Live, t0, h0, dxdt)

\* C4 as claimed: a call with an equation set and a state vector of different
\* lengths panics.
MismatchPanics ==
    (entry = "Method" /\ pc # "call" /\ Len(dxdt) # Len(Live)) => pc = "panic"

\* C4 as amended: with more equations than components the methods panic (and
\* a stepper panics at its first method call, before any snapshot); with
\* fewer, and equations that index inside the state vector, the methods return
\* an increment of the state's length that is 0 in every component without an
\* equation, and the steppers do not panic.
MismatchOutcome ==
    /\ (entry = "Method" /\ pc # "call" /\ Len(dxdt) > Len(Live)) => pc = "panic"
    /\ (entry = "Method" /\ pc # "call" /\ Len(dxdt) < Len(Live) /\ OdesInRange) =>
           /\ pc = "done"
           /\ Len(ret.v) = Len(Live)
           /\ \A i \in (Len(dxdt) + 1)..Len(Live) : ret.v[i] = R(0)
    /\ (entry # "Method" /\ Len(dxdt) > Len(Live)) =>
           /\ r = <<>>
           /\ pc \notin {"attempt", "loop"} => (pc = "panic" \/ RLess(tmax, t0))
    /\ (entry # "Method" /\ Len(dxdt) < Len(Live) /\ OdesInRange) => pc # "panic"

\* a method returned normally for a state vector longer than the equation set
MismatchOutcomeWitness ==
    /\ entry = "Method"
    /\ pc = "done"
    /\ Len(dxdt) < Len(Live)
    /\ \E i \in 1..Len(dxdt) : ret.v[i] # R(0)

\* floor of a rational
Floor(x) == x[1] \div x[2]

\* tmax - t0 is an exact multiple of h
ExactMultiple == RDiv(RSub(tmax, t0), h0)[2] = 1

IncrementMatchesStep ==
    [][ (pc = "accept") =>
            /\ T' = RAdd(T, H)
            /\ r'[Len(r')].t = T
            /\ Integrator(method, Live, T, RSub(T', T), dxdt).ok
            /\ mem'[xx] = AddTo(Live, Integrator(method, Live, T, RSub(T', T), dxdt).v) ]_vars

\* the retry loop ended after five attempts with a final halving, so the h
\* kept for the next iteration differs from the step of the increment
IncrementMatchesStepWitness ==
    /\ pc = "loop"
    /\ Adaptive
    /\ tries = 5
    /\ halvings = 5
    /\ RLess(h, H)
    /\ Len(r) >= 1
    /\ Live # mem[r[Len(r)].xx]

\* C7: an outer iteration of AdaptiveStep makes at most 5 attempts and halves
\* h at most 5 times; the fifth attempt ends the retry loop whatever q is, and
\* the step is then accepted: one snapshot is appended per outer iteration.
AtMostFiveAttempts ==
    /\ [](tries <= 5 /\ halvings <= 5)
    /\ [][ (pc = "attempt" /\ tries = 4 /\ pc' # "panic") => pc' = "accept" ]_vars
    /\ [][ (pc = "attempt") => r' = r ]_vars
    /\ [][ (pc = "accept") =>
               /\ Len(r') = Len(r) + 1
               /\ T' = RAdd(T, H)
               /\ mem'[xx] = AddTo(Live, kk_full)
               /\ pc' = "loop" ]_vars

\* five attempts with h >= hmin and q > 0.005 each, then the step accepted
AtMostFiveAttemptsWitness ==
    /\ pc = "loop"
    /\ Adaptive
    /\ tries = 5
    /\ halvings = 5
    /\ RLess(QHigh, q)
    /\ RLeq(hmin, H)
    /\ Len(r) >= 1

\* C8: in an attempt the first half step is taken at T and the second, from
\* the first's result, at T + h/2, both with step h/2.
HalfStepsCoverInterval ==
    (Len(calls) = 3) =>
        /\ calls[2].x = calls[1].x
        /\ calls[2].t = calls[1].t
        /\ calls[2].h = RDiv(calls[1].h, R(2))
        /\ calls[3].x = AddTo(calls[2].x,
                              Integrator(method, calls[2].x, calls[2].t, calls[2].h, dxdt).v)
        /\ calls[3].t = RAdd(calls[1].t, RDiv(calls[1].h, R(2)))
        /\ calls[3].h = RDiv(calls[1].h, R(2))

\* C9: for h > 0 and hmin > 0 AdaptiveStep terminates, and the step H of every
\* outer iteration is at least min(initial h, hmin/2).
AdaptiveTerminates ==
    /\ Adaptive => <>(pc \in {"done", "mutated", "panic"})
    /\ []((Adaptive /\ pc = "accept") => RLeq(RMin(h0, RDiv(hmin, R(2))), H))

\* AdaptiveStep returned after a step of exactly hmin/2, below the initial h
AdaptiveTerminatesWitness ==
    /\ Adaptive
    /\ pc = "done"
    /\ Len(r) >= 2
    /\ H = RDiv(hmin, R(2))
    /\ RLess(H, h0)

\* C10: once h < hmin, h is never changed again, and an attempt that starts
\* with h < hmin ends the retry loop with H = h whatever q is: every later
\* outer iteration makes exactly one attempt.
BelowMinimumIsFinal ==
    [][ (Adaptive /\ RLess(h, hmin)) =>
            /\ h' = h
            /\ (pc = "attempt" /\ pc' # "panic") =>
                   (pc' = "accept" /\ H' = h /\ tries' = tries + 1) ]_vars

\* a later outer iteration made its one attempt with h < hmin and a q that
\* would have doubled h
BelowMinimumIsFinalWitness ==
    /\ Adaptive
    /\ pc = "accept"
    /\ RLess(h, hmin)
    /\ H = h
    /\ tries = 1
    /\ Len(r) >= 1
    /\ RLess(q, QLow)

====
